---- MODULE Spec2Model ----
(***************************************************************************)
(* A model of gns3-server's process supervisor (gns3server/server.py) and  *)
(* of the Ethernet hub NIO / capture endpoints                             *)
(* (gns3server/endpoints/compute/ethernet_hub_nodes.py).                   *)
(*                                                                         *)
(* The supervisor is modelled for the POSIX branch of _signal_handling     *)
(* (add_signal_handler).  Tasks of the cooperative scheduler interleave    *)
(* only at their suspension points: a coroutine running _stop_application  *)
(* is suspended inside "yield from m.unload()" and nowhere else.           *)
(***************************************************************************)
EXTENDS Integers, Sequences, FiniteSets

\* ---------------------------------------------------------------- bounds

\* Number of Backend Modules in the registry MODULES.
NumModules == 2
\* Number of reload tasks the model lets _reload_hook start.
MaxReload == 2

\* Number of NIOs the model lets Dynamips.create_nio materialize at a time.
MaxNio == 2
\* Number of request handlers in flight at a time.
MaxReq == 2
\* Number of frames the model lets a capture session write to a file.
MaxBytes == 1

\* ------------------------------------------------------------- constants

\* self._start_time = time.time()
StartTime == 1

\* MODULES, the registry, in registration order.
MODULES == 1..NumModules

\* signals = ["SIGTERM", "SIGINT"] + ["SIGHUP", "SIGQUIT"]
Signals == {"SIGTERM", "SIGINT", "SIGHUP", "SIGQUIT"}

\* The loaded source units that _reload_hook stats (sys.modules.values()).
SrcFiles == {"server.py", "route.py"}

\* The ports of the hub node (its ports_mapping), and the port numbers a
\* request may name: the last one is no port of the node.
Ports == {0, 1}
PortNumbers == {0, 1, 2}

\* node_capture_data.capture_file_name
FileNames == {"cap1.pcap"}

Nios == 1..MaxNio
Req == 1..MaxReq
Ops == {"create_nio", "delete_nio", "start_capture", "stop_capture",
        "stream_pcap_file"}

\* The adapter numbers a request may name (adapter_number of the route).
Adapters == {0, 1}

\* ------------------------------------------------------------- variables

VARIABLES
    pc,            \* position of Server.run
    debug,         \* server_config.getboolean("debug")
    port_manager,  \* modules whose port_manager has been set
    listening,     \* create_server succeeded
    fatal,         \* log.critical("Could not start the server")
    stale_stop,    \* a stop request left in the loop by run_until_complete
    handlers,      \* signals with an installed handler
    hook,          \* a call_later(1, self._reload_hook) is pending
    loop,          \* the scheduler: "idle", "running", "stopping", "stopped"
    stop_calls,    \* self._loop.stop() calls made by _stop_application
    execed,        \* os.execv has replaced the process image
    sigco,         \* signal_handler coroutines: number per coroutine state
    rtasks,        \* reload() tasks: number of tasks per coroutine state
    calls,         \* per module: number of unload() invocations
    rets,          \* per module: number of unload() invocations that returned
    mtime,         \* per source unit: os.stat(path).st_mtime
    \* the Ethernet hub node and the requests to its endpoints
    mapping,       \* the node's port mapping: port -> NIO (0: no NIO)
    nio_st,        \* per NIO: "none", "live" (materialized) or "released"
    nio_port,      \* per NIO: the port it is bound to (-1: detached)
    capture,       \* per NIO: the files of its running capture sessions
    pcap,          \* per capture file: its length (-1: no such file)
    req,           \* per request handler in flight: its position and locals
    race           \* per port, history: the start_capture call that started
                   \* the running capture (0: none), and the start_capture
                   \* calls on the port that were in flight at that moment

srv_vars == <<pc, debug, port_manager, listening, fatal, stale_stop, handlers,
              hook, loop, stop_calls, execed, sigco, rtasks, calls, rets, mtime>>

hub_vars == <<mapping, nio_st, nio_port, capture, pcap, req, race>>

vars == <<srv_vars, hub_vars>>

\* --------------------------------------------------- coroutine states

\* A coroutine that runs _stop_application is not yet started ("new"),
\* suspended in the unload of module i ("in", i), finished ("done"), or
\* ended by an exception raised in the unload of module i ("failed", i).
CoNew == <<"new", 0>>
CoDone == <<"done", 0>>
CoIn(i) == <<"in", i>>
CoFailed(i) == <<"failed", i>>
CoStates == {CoNew, CoDone} \cup {CoIn(i) : i \in MODULES}
                            \cup {CoFailed(i) : i \in MODULES}

\* _stop_application, after the unload of module i returned: the for loop
\* goes on to the next module of MODULES, or ends and the loop is stopped.
\* (A faulty variant for comparison: the loop is stopped after the first
\* unload, inside the for loop.)
AfterUnload_StopInsideLoop(i) == [co |-> CoDone, stop |-> TRUE]
AfterUnload(i) ==
    IF i < NumModules THEN [co |-> CoIn(i + 1), stop |-> FALSE]
                      ELSE [co |-> CoDone, stop |-> TRUE]

\* _stop_application, entered: the first module's unload is invoked.
EnterStop == IF NumModules >= 1 THEN [co |-> CoIn(1), stop |-> FALSE]
                                ELSE [co |-> CoDone, stop |-> TRUE]

\* The bookkeeping of one step of _stop_application that leads to r.
InvokeUnload(r) == IF r.co[1] = "in" THEN [calls EXCEPT ![r.co[2]] = @ + 1]
                               ELSE calls
StopLoop(r) ==
    IF r.stop THEN /\ loop' = "stopping"
                   /\ stop_calls' = stop_calls + 1
              ELSE UNCHANGED <<loop, stop_calls>>

\* The signal_handler coroutines and the reload() tasks are kept as counts
\* per coroutine state: the code treats every signal name alike, and every
\* reload() task alike.
Move(bag, from, to) == [bag EXCEPT ![from] = @ - 1, ![to] = @ + 1]

Total(bag) == LET Sum[S \in SUBSET CoStates] ==
                    IF S = {} THEN 0
                    ELSE LET c == CHOOSE x \in S : TRUE
                         IN bag[c] + Sum[S \ {c}]
              IN Sum[CoStates]

\* modified > self._start_time
\* (A faulty variant for comparison: modified >= self._start_time.)
Modified_NotStrict(f) == mtime[f] >= StartTime
Modified(f) == mtime[f] > StartTime

\* ------------------------------------------------------------------ Init

InitServer ==
    /\ pc = "load"
    /\ debug \in BOOLEAN
    /\ port_manager = {}
    /\ listening = FALSE
    /\ fatal = FALSE
    /\ stale_stop = FALSE
    /\ handlers = {}
    /\ hook = FALSE
    /\ loop = "idle"
    /\ stop_calls = 0
    /\ execed = FALSE
    /\ sigco = [c \in CoStates |-> 0]
    /\ rtasks = [c \in CoStates |-> 0]
    /\ calls = [m \in MODULES |-> 0]
    /\ rets = [m \in MODULES |-> 0]
    /\ mtime = [f \in SrcFiles |-> StartTime]

\* A request handler that is not running, and one that has returned.
\* Its locals are dropped when it returns; stopped tells that the remove_nio
\* of a delete_nio found a capture running and stopped it.
Idle == [op |-> "none", adapter |-> 0, port |-> 0, pc |-> "idle", nio |-> 0,
         file |-> "", stopped |-> FALSE, res |-> "none"]
Done(op, result, stopped) ==
    [op |-> op, adapter |-> 0, port |-> 0, pc |-> "done", nio |-> 0,
     file |-> "", stopped |-> stopped, res |-> result]

NoRace == [winner |-> 0, rivals |-> {}]

InitNode ==
    /\ mapping = [p \in Ports |-> 0]
    /\ nio_st = [n \in Nios |-> "none"]
    /\ nio_port = [n \in Nios |-> -1]
    /\ capture = [n \in Nios |-> <<>>]
    /\ pcap = [f \in FileNames |-> -1]
    /\ req = [r \in Req |-> Idle]
    /\ race = [p \in Ports |-> NoRace]

Init == InitServer /\ InitNode

\* ------------------------------------------------------------ Server.run

\* for module in MODULES: m.port_manager = self._port_manager
LoadModule ==
    /\ UNCHANGED hub_vars
    /\ pc = "load"
    /\ Cardinality(port_manager) < NumModules
    /\ port_manager' = port_manager \cup {Cardinality(port_manager) + 1}
    /\ UNCHANGED <<pc, debug, listening, fatal, stale_stop, handlers, hook,
                   loop, stop_calls, execed, sigco, rtasks, calls, rets, mtime>>

\* run_until_complete(self._run_application(app, ssl_context)): create_server
\* succeeds, or raises OSError, which is logged and stops the loop.  run does
\* not look at the result: it goes on to _signal_handling in both cases.
\* Whether the stop request outlives run_until_complete depends on the
\* asyncio version.
\* (A faulty variant for comparison: the listening endpoint is created
\* without waiting for the loop over MODULES to end.)
RunApplication_BeforeModules ==
    /\ UNCHANGED hub_vars
    /\ pc = "load"
    /\ \/ /\ listening' = TRUE
          /\ UNCHANGED <<fatal, stale_stop>>
       \/ /\ fatal' = TRUE
          /\ stale_stop' \in BOOLEAN
          /\ UNCHANGED listening
    /\ pc' = "signals"
    /\ UNCHANGED <<debug, port_manager, handlers, hook, loop, stop_calls,
                   execed, sigco, rtasks, calls, rets, mtime>>
RunApplication ==
    /\ UNCHANGED hub_vars
    /\ pc = "load"
    /\ Cardinality(port_manager) = NumModules
    /\ \/ /\ listening' = TRUE
          /\ UNCHANGED <<fatal, stale_stop>>
       \/ /\ fatal' = TRUE
          /\ stale_stop' \in BOOLEAN
          /\ UNCHANGED listening
    /\ pc' = "signals"
    /\ UNCHANGED <<debug, port_manager, handlers, hook, loop, stop_calls,
                   execed, sigco, rtasks, calls, rets, mtime>>

\* self._signal_handling(): one signal_handler coroutine object is created
\* per signal name and bound into that signal's callback.
SignalHandling ==
    /\ UNCHANGED hub_vars
    /\ pc = "signals"
    /\ handlers' = Signals
    /\ sigco' = [sigco EXCEPT ![CoNew] = Cardinality(Signals)]
    /\ pc' = "reload_watch"
    /\ UNCHANGED <<debug, port_manager, listening, fatal, stale_stop, hook,
                   loop, stop_calls, execed, rtasks, calls, rets, mtime>>

\* if server_config.getboolean("debug"): call_later(1, self._reload_hook)
ReloadWatch ==
    /\ UNCHANGED hub_vars
    /\ pc = "reload_watch"
    /\ hook' = debug
    /\ pc' = "run_forever"
    /\ UNCHANGED <<debug, port_manager, listening, fatal, stale_stop, handlers,
                   loop, stop_calls, execed, sigco, rtasks, calls, rets, mtime>>

\* self._loop.run_forever(): runs until the loop is stopped.
RunForever ==
    /\ UNCHANGED hub_vars
    /\ pc = "run_forever"
    /\ loop = "idle"
    /\ IF stale_stop THEN loop' = "stopped" /\ pc' = "returned"
                     ELSE loop' = "running" /\ UNCHANGED pc
    /\ UNCHANGED <<debug, port_manager, listening, fatal, stale_stop, handlers,
                   hook, stop_calls, execed, sigco, rtasks, calls, rets, mtime>>

\* The loop ends the iteration in which stop() was called; run returns.
LoopExit ==
    /\ UNCHANGED hub_vars
    /\ loop = "stopping"
    /\ ~execed
    /\ loop' = "stopped"
    /\ pc' = "returned"
    /\ UNCHANGED <<debug, port_manager, listening, fatal, stale_stop, handlers,
                   hook, stop_calls, execed, sigco, rtasks, calls, rets, mtime>>

\* ------------------------------------------------------ signal handling

\* A termination signal is delivered whose coroutine is in state c:
\* callback = asyncio.async(that coroutine), a new Task that steps the one
\* coroutine object of the signal.  A coroutine not yet started enters
\* _stop_application (a first delivery of that signal); one suspended in an
\* unload (the same signal again) is resumed by the second Task while its
\* future is not done.  What that does depends on the asyncio build: the
\* future's iterator raises inside the unload ("yield from wasn't used with
\* future"), which ends the coroutine, or it yields the future again and
\* the second Task waits with the first, which changes nothing.  A finished
\* coroutine is exhausted and nothing happens.
Signal(c) ==
    /\ UNCHANGED hub_vars
    /\ loop = "running"
    /\ ~execed
    /\ handlers # {}
    /\ c[1] \in {"new", "in"}
    /\ sigco[c] > 0
    /\ IF c = CoNew
       THEN /\ sigco' = Move(sigco, c, EnterStop.co)
            /\ calls' = InvokeUnload(EnterStop)
            /\ StopLoop(EnterStop)
       ELSE /\ \E raised \in BOOLEAN :
                 sigco' = IF raised THEN Move(sigco, c, CoFailed(c[2]))
                                    ELSE sigco
            /\ UNCHANGED <<calls, loop, stop_calls>>
    /\ UNCHANGED <<pc, debug, port_manager, listening, fatal, stale_stop,
                   handlers, hook, execed, rtasks, rets, mtime>>

\* The unload of module i awaited by a signal_handler coroutine returns, and
\* _stop_application runs on to its next suspension or to its end.
SignalUnloadReturns(i) ==
    /\ UNCHANGED hub_vars
    /\ loop \in {"running", "stopping"}
    /\ ~execed
    /\ sigco[CoIn(i)] > 0
    /\ LET r == AfterUnload(i)
       IN /\ sigco' = Move(sigco, CoIn(i), r.co)
          /\ rets' = [rets EXCEPT ![i] = @ + 1]
          /\ calls' = InvokeUnload(r)
          /\ StopLoop(r)
    /\ UNCHANGED <<pc, debug, port_manager, listening, fatal, stale_stop,
                   handlers, hook, execed, rtasks, mtime>>

\* The unload of module i awaited by a signal_handler coroutine raises:
\* nothing in _stop_application or signal_handler catches it, the task ends.
SignalUnloadRaises(i) ==
    /\ UNCHANGED hub_vars
    /\ loop \in {"running", "stopping"}
    /\ ~execed
    /\ sigco[CoIn(i)] > 0
    /\ sigco' = Move(sigco, CoIn(i), CoFailed(i))
    /\ UNCHANGED <<pc, debug, port_manager, listening, fatal, stale_stop,
                   handlers, hook, loop, stop_calls, execed, rtasks, calls,
                   rets, mtime>>

\* ------------------------------------------------------------ live reload

\* A source unit is written after the process started.
Touch(f) ==
    /\ UNCHANGED hub_vars
    /\ ~execed
    /\ loop # "stopped"
    /\ ~Modified(f)
    /\ mtime' = [mtime EXCEPT ![f] = StartTime + 1]
    /\ UNCHANGED <<pc, debug, port_manager, listening, fatal, stale_stop,
                   handlers, hook, loop, stop_calls, execed, sigco, rtasks,
                   calls, rets>>

\* _reload_hook: asyncio.async(reload()) once per source unit that is newer
\* than the start time, then the hook re-arms itself.
ReloadHook ==
    /\ UNCHANGED hub_vars
    /\ loop = "running"
    /\ ~execed
    /\ hook
    /\ LET k == Cardinality({f \in SrcFiles : Modified(f)})
       IN /\ Total(rtasks) + k <= MaxReload
          /\ rtasks' = [rtasks EXCEPT ![CoNew] = @ + k]
    /\ UNCHANGED <<pc, debug, port_manager, listening, fatal, stale_stop,
                   handlers, hook, loop, stop_calls, execed, sigco, calls,
                   rets, mtime>>

\* reload(), after "yield from self._stop_application()" went to r: when
\* _stop_application has returned, os.execv replaces the process image.
\* (A faulty variant for comparison: os.execv without waiting for
\* _stop_application.)
ReloadExec_BeforeStop(r) == TRUE
ReloadExec(r) == r.stop

\* The first step of a reload() task: log, enter _stop_application.
ReloadStart ==
    /\ UNCHANGED hub_vars
    /\ loop \in {"running", "stopping"}
    /\ ~execed
    /\ rtasks[CoNew] > 0
    /\ rtasks' = Move(rtasks, CoNew, EnterStop.co)
    /\ calls' = InvokeUnload(EnterStop)
    /\ StopLoop(EnterStop)
    /\ execed' = ReloadExec(EnterStop)
    /\ UNCHANGED <<pc, debug, port_manager, listening, fatal, stale_stop,
                   handlers, hook, sigco, rets, mtime>>

\* The unload awaited by a reload() task suspended in module i returns.
ReloadUnloadReturns(i) ==
    /\ UNCHANGED hub_vars
    /\ loop \in {"running", "stopping"}
    /\ ~execed
    /\ rtasks[CoIn(i)] > 0
    /\ LET r == AfterUnload(i)
       IN /\ rtasks' = Move(rtasks, CoIn(i), r.co)
          /\ rets' = [rets EXCEPT ![i] = @ + 1]
          /\ calls' = InvokeUnload(r)
          /\ StopLoop(r)
          /\ execed' = ReloadExec(r)
    /\ UNCHANGED <<pc, debug, port_manager, listening, fatal, stale_stop,
                   handlers, hook, sigco, mtime>>

\* The unload awaited by a reload() task suspended in module i raises: the
\* task ends, os.execv is not reached.
ReloadUnloadRaises(i) ==
    /\ UNCHANGED hub_vars
    /\ loop \in {"running", "stopping"}
    /\ ~execed
    /\ rtasks[CoIn(i)] > 0
    /\ rtasks' = Move(rtasks, CoIn(i), CoFailed(i))
    /\ UNCHANGED <<pc, debug, port_manager, listening, fatal, stale_stop,
                   handlers, hook, loop, stop_calls, execed, sigco, calls,
                   rets, mtime>>

\* ------------------------------------------------------------------ Next

Next ==
    \/ LoadModule
    \/ RunApplication
    \/ SignalHandling
    \/ ReloadWatch
    \/ RunForever
    \/ LoopExit
    \/ \E c \in CoStates : Signal(c)
    \/ \E i \in MODULES : SignalUnloadReturns(i)
    \/ \E i \in MODULES : SignalUnloadRaises(i)
    \/ \E f \in SrcFiles : Touch(f)
    \/ ReloadHook
    \/ ReloadStart
    \/ \E i \in MODULES : ReloadUnloadReturns(i)
    \/ \E i \in MODULES : ReloadUnloadRaises(i)

Spec == Init /\ [][Next]_vars

\* The scheduler runs what is ready: a started task gets its first step,
\* the iteration in which stop() was called ends, and an awaited unload is
\* resumed when it has returned.
Fairness ==
    /\ WF_vars(LoopExit)
    /\ WF_vars(ReloadStart)
    /\ \A i \in MODULES : WF_vars(SignalUnloadReturns(i))
    /\ \A i \in MODULES : WF_vars(ReloadUnloadReturns(i))

\* The server with modules whose unload always returns: no unload raises
\* of its own.
NextLive ==
    \/ LoadModule
    \/ RunApplication
    \/ SignalHandling
    \/ ReloadWatch
    \/ RunForever
    \/ LoopExit
    \/ \E c \in CoStates : Signal(c)
    \/ \E i \in MODULES : SignalUnloadReturns(i)
    \/ \E f \in SrcFiles : Touch(f)
    \/ ReloadHook
    \/ ReloadStart
    \/ \E i \in MODULES : ReloadUnloadReturns(i)

SpecLive == Init /\ [][NextLive]_vars /\ Fairness

\* ------------------------------------------- the node capability (spec)

\* node.add_nio(nio, port): not-found when the port does not exist,
\* conflict when the port already holds an endpoint.
AddNioOutcome(p) ==
    IF p \notin Ports THEN "notfound"
    ELSE IF mapping[p] # 0 THEN "conflict"
    ELSE "ok"

\* node.remove_nio(port): not-found when the port holds no endpoint.
RemoveNioOutcome(p) ==
    IF p \notin Ports \/ mapping[p] = 0 THEN "notfound" ELSE "ok"

\* node.start_capture(port, path, link_type): not-found when the port holds
\* no endpoint, conflict when a capture is already running on it.
StartCaptureOutcome(p) ==
    IF p \notin Ports \/ mapping[p] = 0 THEN "notfound"
    ELSE IF capture[mapping[p]] # <<>> THEN "conflict"
    ELSE "ok"

\* node.stop_capture(port): not-found when no capture is running there.
StopCaptureOutcome(p) ==
    IF p \notin Ports \/ mapping[p] = 0 THEN "notfound"
    ELSE IF capture[mapping[p]] = <<>> THEN "notfound"
    ELSE "ok"

\* node.get_nio(port) and Dynamips.stream_pcap_file(nio, project_id):
\* not-found when the port holds no endpoint or the endpoint has no capture
\* file.  Which file an endpoint without a running capture was captured to
\* earlier is not recorded: when some file exists, both outcomes are possible.
StreamOutcomes(p) ==
    IF p \notin Ports \/ mapping[p] = 0 THEN {"notfound"}
    ELSE IF capture[mapping[p]] # <<>> THEN {"ok"}
    ELSE IF \E f \in FileNames : pcap[f] >= 0 THEN {"ok", "notfound"}
    ELSE {"notfound"}

\* Dynamips.create_nio(node, nio_data): the NIO it materializes.
FreeNios == {n \in Nios : nio_st[n] \in {"none", "released"}}
NewNio == CHOOSE n \in FreeNios : \A m \in FreeNios : n <= m

\* A lifecycle transition took effect on port p: what is recorded about the
\* capture that ran there is forgotten.
Forget(p) == [race EXCEPT ![p] = NoRace]

\* Request handler r is taken by a new request: it leaves the record.
Leave(rc, r) == IF rc.winner = r THEN NoRace
                ELSE [rc EXCEPT !.rivals = @ \ {r}]

\* Request r started the capture on port p: the start_capture calls on p
\* that are in flight at this moment.
Rivals(r, p) == {q \in Req \ {r} : /\ req[q].op = "start_capture"
                                   /\ req[q].pc = "called"
                                   /\ req[q].port = p}

\* ------------------------------------------------------------- requests

\* A request arrives and its handler is scheduled; it takes the first
\* handler of the model that is not running.
Request(r, op, a, p, f) ==
    /\ req[r].pc \in {"idle", "done"}
    /\ \A q \in Req : q < r => req[q].pc \notin {"idle", "done"}
    /\ req' = [req EXCEPT ![r] = [op |-> op, adapter |-> a, port |-> p,
                                  pc |-> "called", nio |-> 0,
                                  file |-> IF op = "start_capture" THEN f ELSE "",
                                  stopped |-> FALSE, res |-> "none"]]
    /\ race' = [q \in Ports |-> Leave(race[q], r)]
    /\ UNCHANGED <<mapping, nio_st, nio_port, capture, pcap>>
    /\ UNCHANGED srv_vars

\* create_nio, to its first suspension: get_node, then
\* await dynamips_manager.create_nio(node, ...) materializes the NIO.
CreateNio(r) ==
    /\ req[r].op = "create_nio"
    /\ req[r].pc = "called"
    /\ FreeNios # {}
    /\ nio_st' = [nio_st EXCEPT ![NewNio] = "live"]
    /\ nio_port' = [nio_port EXCEPT ![NewNio] = -1]
    /\ capture' = [capture EXCEPT ![NewNio] = <<>>]
    /\ req' = [req EXCEPT ![r].pc = "add_nio", ![r].nio = NewNio]
    /\ UNCHANGED <<mapping, pcap, race>>
    /\ UNCHANGED srv_vars

\* create_nio, resumed: await node.add_nio(nio, port_number), then the
\* response.  A failure of add_nio ends the handler with the error.
\* (A faulty variant for comparison: the NIO is bound whatever the slot
\* holds.)
CreateNioAdd_Rebinds(r) ==
    /\ req[r].op = "create_nio"
    /\ req[r].pc = "add_nio"
    /\ LET p == req[r].port
           n == req[r].nio
           out == IF p \in Ports THEN "ok" ELSE "notfound"
       IN /\ IF out = "ok"
             THEN /\ mapping' = [mapping EXCEPT ![p] = n]
                  /\ nio_port' = [nio_port EXCEPT ![n] = p]
                  /\ race' = Forget(p)
             ELSE UNCHANGED <<mapping, nio_port, race>>
          /\ req' = [req EXCEPT ![r] = Done("create_nio", out, FALSE)]
    /\ UNCHANGED <<nio_st, capture, pcap>>
    /\ UNCHANGED srv_vars
CreateNioAdd(r) ==
    /\ req[r].op = "create_nio"
    /\ req[r].pc = "add_nio"
    /\ LET p == req[r].port
           n == req[r].nio
           out == AddNioOutcome(p)
       IN /\ IF out = "ok"
             THEN /\ mapping' = [mapping EXCEPT ![p] = n]
                  /\ nio_port' = [nio_port EXCEPT ![n] = p]
                  /\ race' = Forget(p)
             ELSE UNCHANGED <<mapping, nio_port, race>>
          /\ req' = [req EXCEPT ![r] = Done("create_nio", out, FALSE)]
    /\ UNCHANGED <<nio_st, capture, pcap>>
    /\ UNCHANGED srv_vars

\* delete_nio, to its second await: get_node, then
\* nio = await node.remove_nio(port_number); the node stops a running
\* capture and takes the NIO out of its port mapping.
\* (A faulty variant for comparison: the NIO is taken for release without
\* node.remove_nio having stopped the capture and emptied the slot.)
DeleteNio_ReleaseOnly(r) ==
    /\ req[r].op = "delete_nio"
    /\ req[r].pc = "called"
    /\ LET p == req[r].port
           out == RemoveNioOutcome(p)
       IN IF out = "ok"
          THEN req' = [req EXCEPT ![r].pc = "delete", ![r].nio = mapping[p]]
          ELSE req' = [req EXCEPT ![r] = Done("delete_nio", out, FALSE)]
    /\ UNCHANGED <<mapping, nio_port, capture, race, nio_st, pcap>>
    /\ UNCHANGED srv_vars
DeleteNio(r) ==
    /\ req[r].op = "delete_nio"
    /\ req[r].pc = "called"
    /\ LET p == req[r].port
           out == RemoveNioOutcome(p)
       IN IF out = "ok"
          THEN /\ capture' = [capture EXCEPT ![mapping[p]] = <<>>]
               /\ nio_port' = [nio_port EXCEPT ![mapping[p]] = -1]
               /\ mapping' = [mapping EXCEPT ![p] = 0]
               /\ race' = Forget(p)
               /\ req' = [req EXCEPT ![r].pc = "delete", ![r].nio = mapping[p],
                                     ![r].stopped = capture[mapping[p]] # <<>>]
          ELSE /\ req' = [req EXCEPT ![r] = Done("delete_nio", out, FALSE)]
               /\ UNCHANGED <<mapping, nio_port, capture, race>>
    /\ UNCHANGED <<nio_st, pcap>>
    /\ UNCHANGED srv_vars

\* delete_nio, resumed: await nio.delete() releases the NIO.
DeleteNioRelease(r) ==
    /\ req[r].op = "delete_nio"
    /\ req[r].pc = "delete"
    /\ nio_st' = [nio_st EXCEPT ![req[r].nio] = "released"]
    /\ req' = [req EXCEPT ![r] = Done("delete_nio", "ok", req[r].stopped)]
    /\ UNCHANGED <<mapping, nio_port, capture, pcap, race>>
    /\ UNCHANGED srv_vars

\* start_capture: get_node, pcap_file_path = os.path.join(...), then
\* await node.start_capture(port_number, pcap_file_path, ...).  The path is
\* only computed by the handler; the node opens the file when it starts.
\* (Faulty variants for comparison: one that answers success whatever
\* node.start_capture raised, one that opens the file itself.)
StartCapture_SwallowsError(r) ==
    /\ req[r].op = "start_capture"
    /\ req[r].pc = "called"
    /\ LET p == req[r].port
           f == req[r].file
           out == StartCaptureOutcome(p)
       IN /\ IF out = "ok"
             THEN /\ capture' = [capture EXCEPT ![mapping[p]] = Append(@, f)]
                  /\ pcap' = [pcap EXCEPT ![f] = 0]
                  /\ race' = [race EXCEPT ![p] =
                                [winner |-> r, rivals |-> Rivals(r, p)]]
             ELSE UNCHANGED <<capture, pcap, race>>
          /\ req' = [req EXCEPT ![r] = Done("start_capture", "ok", FALSE)]
    /\ UNCHANGED <<mapping, nio_st, nio_port>>
    /\ UNCHANGED srv_vars
StartCapture_OpensFile(r) ==
    /\ req[r].op = "start_capture"
    /\ req[r].pc = "called"
    /\ LET p == req[r].port
           f == req[r].file
           out == StartCaptureOutcome(p)
       IN /\ pcap' = [pcap EXCEPT ![f] = 0]
          /\ IF out = "ok"
             THEN /\ capture' = [capture EXCEPT ![mapping[p]] = Append(@, f)]
                  /\ race' = [race EXCEPT ![p] =
                                [winner |-> r, rivals |-> Rivals(r, p)]]
             ELSE UNCHANGED <<capture, race>>
          /\ req' = [req EXCEPT ![r] = Done("start_capture", out, FALSE)]
    /\ UNCHANGED <<mapping, nio_st, nio_port>>
    /\ UNCHANGED srv_vars
StartCapture(r) ==
    /\ req[r].op = "start_capture"
    /\ req[r].pc = "called"
    /\ LET p == req[r].port
           f == req[r].file
           out == StartCaptureOutcome(p)
       IN /\ IF out = "ok"
             THEN /\ capture' = [capture EXCEPT ![mapping[p]] = Append(@, f)]
                  /\ pcap' = [pcap EXCEPT ![f] = 0]
                  /\ race' = [race EXCEPT ![p] =
                                [winner |-> r, rivals |-> Rivals(r, p)]]
             ELSE UNCHANGED <<capture, pcap, race>>
          /\ req' = [req EXCEPT ![r] = Done("start_capture", out, FALSE)]
    /\ UNCHANGED <<mapping, nio_st, nio_port>>
    /\ UNCHANGED srv_vars

\* stop_capture: get_node, then await node.stop_capture(port_number).
\* (Faulty variants for comparison: one that answers success whatever
\* node.stop_capture raised, one that answers not-found to a request that
\* names another adapter than 0.)
StopCapture_Idempotent(r) ==
    /\ req[r].op = "stop_capture"
    /\ req[r].pc = "called"
    /\ LET p == req[r].port
           out == StopCaptureOutcome(p)
       IN /\ IF out = "ok"
             THEN /\ capture' = [capture EXCEPT ![mapping[p]] = <<>>]
                  /\ race' = Forget(p)
             ELSE UNCHANGED <<capture, race>>
          /\ req' = [req EXCEPT ![r] = Done("stop_capture", "ok", FALSE)]
    /\ UNCHANGED <<mapping, nio_st, nio_port, pcap>>
    /\ UNCHANGED srv_vars
StopCapture_ChecksAdapter(r) ==
    /\ req[r].op = "stop_capture"
    /\ req[r].pc = "called"
    /\ LET p == req[r].port
           out == IF req[r].adapter # 0 THEN "notfound"
                  ELSE StopCaptureOutcome(p)
       IN /\ IF out = "ok"
             THEN /\ capture' = [capture EXCEPT ![mapping[p]] = <<>>]
                  /\ race' = Forget(p)
             ELSE UNCHANGED <<capture, race>>
          /\ req' = [req EXCEPT ![r] = Done("stop_capture", out, FALSE)]
    /\ UNCHANGED <<mapping, nio_st, nio_port, pcap>>
    /\ UNCHANGED srv_vars
StopCapture(r) ==
    /\ req[r].op = "stop_capture"
    /\ req[r].pc = "called"
    /\ LET p == req[r].port
           out == StopCaptureOutcome(p)
       IN /\ IF out = "ok"
             THEN /\ capture' = [capture EXCEPT ![mapping[p]] = <<>>]
                  /\ race' = Forget(p)
             ELSE UNCHANGED <<capture, race>>
          /\ req' = [req EXCEPT ![r] = Done("stop_capture", out, FALSE)]
    /\ UNCHANGED <<mapping, nio_st, nio_port, pcap>>
    /\ UNCHANGED srv_vars

\* stream_pcap_file: get_node, nio = node.get_nio(port_number),
\* stream = dynamips_manager.stream_pcap_file(nio, ...), and the
\* StreamingResponse is returned; the handler awaits nothing and writes
\* nothing.
\* (A faulty variant for comparison: opening the stream takes the file from
\* the writer, which ends the running capture.)
StreamPcapFile_StopsCapture(r) ==
    /\ req[r].op = "stream_pcap_file"
    /\ req[r].pc = "called"
    /\ \E out \in StreamOutcomes(req[r].port) :
          IF out = "ok"
          THEN /\ req' = [req EXCEPT ![r].pc = "streaming",
                                     ![r].nio = mapping[req[r].port]]
               /\ capture' = [capture EXCEPT ![mapping[req[r].port]] = <<>>]
          ELSE /\ req' = [req EXCEPT
                            ![r] = Done("stream_pcap_file", out, FALSE)]
               /\ UNCHANGED capture
    /\ UNCHANGED <<mapping, nio_st, nio_port, pcap, race>>
    /\ UNCHANGED srv_vars
StreamPcapFile(r) ==
    /\ req[r].op = "stream_pcap_file"
    /\ req[r].pc = "called"
    /\ \E out \in StreamOutcomes(req[r].port) :
          IF out = "ok"
          THEN req' = [req EXCEPT ![r].pc = "streaming",
                                  ![r].nio = mapping[req[r].port]]
          ELSE req' = [req EXCEPT ![r] = Done("stream_pcap_file", out, FALSE)]
    /\ UNCHANGED <<mapping, nio_st, nio_port, capture, pcap, race>>
    /\ UNCHANGED srv_vars

\* The open stream ends: the caller disconnects.
StreamEnd(r) ==
    /\ req[r].op = "stream_pcap_file"
    /\ req[r].pc = "streaming"
    /\ req' = [req EXCEPT ![r] = Done("stream_pcap_file", "ok", FALSE)]
    /\ UNCHANGED <<mapping, nio_st, nio_port, capture, pcap, race>>
    /\ UNCHANGED srv_vars

\* A running capture session of NIO n writes a frame to its file.
Frame(n, k) ==
    /\ nio_st[n] = "live"
    /\ pcap[capture[n][k]] < MaxBytes
    /\ pcap' = [pcap EXCEPT ![capture[n][k]] = @ + 1]
    /\ UNCHANGED <<mapping, nio_st, nio_port, capture, req, race>>
    /\ UNCHANGED srv_vars

NextHub ==
    \/ \E r \in Req, op \in Ops, a \in Adapters, p \in PortNumbers,
          f \in FileNames : Request(r, op, a, p, f)
    \/ \E r \in Req : CreateNio(r)
    \/ \E r \in Req : CreateNioAdd(r)
    \/ \E r \in Req : DeleteNio(r)
    \/ \E r \in Req : DeleteNioRelease(r)
    \/ \E r \in Req : StartCapture(r)
    \/ \E r \in Req : StopCapture(r)
    \/ \E r \in Req : StreamPcapFile(r)
    \/ \E r \in Req : StreamEnd(r)
    \/ \E n \in Nios : \E k \in 1..Len(capture[n]) : Frame(n, k)

InitHub == InitServer /\ debug = FALSE /\ InitNode

SpecHub == InitHub /\ [][NextHub]_vars
\* ================================================================ claims

\* The shutdowns (signal_handler coroutines and reload() tasks) that have
\* entered _stop_application, those suspended in an unload, and those ended
\* by an exception.
NumShutdowns == (Total(sigco) - sigco[CoNew]) + (Total(rtasks) - rtasks[CoNew])
InUnload == \E i \in MODULES : sigco[CoIn(i)] > 0 \/ rtasks[CoIn(i)] > 0
AnyFailed == \E i \in MODULES : sigco[CoFailed(i)] > 0 \/ rtasks[CoFailed(i)] > 0

\* C1 (as claimed): shutdown is best-effort.  Once a shutdown has been
\* entered and none is suspended in an unload any more, every registered
\* module has had its unload invoked and the scheduler has been stopped,
\* whichever unloads raised.  Stated for the runs in which no signal was
\* delivered (the shutdowns are those of reload tasks), so that the only
\* exception an unload can end with is one it raises itself.
C1_ShutdownBestEffort ==
    (Total(sigco) = sigco[CoNew] /\ NumShutdowns >= 1 /\ ~InUnload) =>
        /\ \A m \in MODULES : calls[m] >= 1
        /\ stop_calls >= 1

\* C2 (as claimed): termination signals trigger shutdown exactly once.  In a
\* run without reload tasks, whatever signals are delivered, each module's
\* unload is invoked at most once and the scheduler is stopped at most once.
C2_SignalsShutdownOnce ==
    Total(rtasks) = 0 =>
        /\ \A m \in MODULES : calls[m] <= 1
        /\ stop_calls <= 1

\* C3 (as claimed): a reload is never started twice.  No step starts more
\* than one reload task, and no step starts a reload task while a reload or
\* a signal-driven shutdown is in flight.
ShutdownInFlight == InUnload \/ rtasks[CoNew] > 0
C3_ReloadStartedOnce ==
    [][/\ Total(rtasks') <= Total(rtasks) + 1
       /\ ShutdownInFlight => Total(rtasks') <= Total(rtasks)]_vars

\* C4: the process image is replaced only after the ordered shutdown has
\* completed: when os.execv has happened, a reload task has run
\* _stop_application to its end, an unload of every registered module has
\* returned, and the scheduler has been stopped.
C4_ExecAfterShutdown ==
    execed =>
        /\ rtasks[CoDone] >= 1
        /\ \A m \in MODULES : rets[m] >= 1
        /\ stop_calls >= 1

C4_Witness == execed

\* C5 (as claimed): when binding the listening endpoint fails, no further
\* startup step is performed: no signal handler is installed, the reload
\* watch is not scheduled, run_forever is not entered.
C5_BindFailureEndsStartup ==
    fatal => /\ handlers = {}
             /\ ~hook
             /\ loop = "idle"
             /\ pc \in {"signals", "returned"}

\* C6: in a shutdown triggered once in which no unload fails, the modules
\* are unloaded in registry order, each unload is awaited before the next
\* begins, and the scheduler is stopped only after the last unload returned.
C6_OrderedShutdown ==
    (NumShutdowns = 1 /\ ~AnyFailed) =>
        /\ \A m \in MODULES : calls[m] <= 1 /\ rets[m] <= calls[m]
        /\ \A i, j \in MODULES : (i < j /\ calls[j] >= 1) => rets[i] = 1
        /\ stop_calls <= 1
        /\ stop_calls = 1 => \A m \in MODULES : rets[m] = 1
        /\ (\A m \in MODULES : rets[m] = 1) => stop_calls = 1

C6_Witness ==
    /\ NumShutdowns = 1
    /\ ~AnyFailed
    /\ stop_calls = 1
    /\ \A m \in MODULES : calls[m] = 1 /\ rets[m] = 1
\* The NIOs bound to port p, as the NIOs themselves have it.
BoundTo(p) == {n \in Nios : nio_st[n] = "live" /\ nio_port[n] = p}

\* Request r takes the step of its handler that leads from pc a to pc b.
Steps(r, op, a, b) ==
    /\ req[r].op = op
    /\ req[r].pc = a
    /\ req'[r].pc = b

\* C7: at most one Network Endpoint is attached to a (node, port) slot in
\* every reachable state, and an attach (create_nio) whose add_nio finds the
\* slot occupied fails with Conflict and leaves the endpoint of the slot as
\* it is.
C7_OneNioPerSlot ==
    /\ [](\A p \in Ports :
            /\ Cardinality(BoundTo(p)) <= 1
            /\ mapping[p] # 0 => BoundTo(p) = {mapping[p]})
    /\ [][\A r \in Req :
            (/\ Steps(r, "create_nio", "add_nio", "done")
             /\ req[r].port \in Ports
             /\ mapping[req[r].port] # 0) =>
                /\ req'[r].res = "conflict"
                /\ mapping' = mapping
                /\ nio_port'[mapping[req[r].port]] = req[r].port
                /\ capture' = capture]_vars

C7_Witness ==
    \E r \in Req, p \in Ports :
        /\ req[r] = Done("create_nio", "conflict", FALSE)
        /\ mapping[p] # 0

C9_OneCaptureStarts ==
    /\ \A n \in Nios : Len(capture[n]) <= 1
    /\ \A p \in Ports :
        race[p].winner # 0 =>
            /\ req[race[p].winner] = Done("start_capture", "ok", FALSE)
            /\ mapping[p] # 0
            /\ Len(capture[mapping[p]]) = 1
            /\ \A q \in race[p].rivals :
                \/ /\ req[q].op = "start_capture"
                   /\ req[q].pc = "called"
                   /\ req[q].port = p
                \/ req[q] = Done("start_capture", "conflict", FALSE)

\* Two start_capture calls were in flight on the slot together; one has
\* started the capture and the other has returned Conflict.
C9_Witness ==
    \E p \in Ports :
        /\ race[p].winner # 0
        /\ \E q \in race[p].rivals :
                req[q] = Done("start_capture", "conflict", FALSE)

\* C10: a start_capture on a slot with no attached endpoint fails with
\* NotFound, leaves the slot empty with no capture running, and creates no
\* capture file.
C10_StartCaptureNoEndpoint ==
    [][\A r \in Req :
         (/\ Steps(r, "start_capture", "called", "done")
          /\ (req[r].port \notin Ports \/ mapping[req[r].port] = 0)) =>
             /\ req'[r].res = "notfound"
             /\ mapping' = mapping
             /\ capture' = capture
             /\ pcap' = pcap]_vars

C10_Witness ==
    \E r \in Req :
        /\ req[r] = Done("start_capture", "notfound", FALSE)
        /\ \A f \in FileNames : pcap[f] = -1
        /\ \A p \in Ports : mapping[p] = 0

\* Request q is about to make its call to the node that consults the slot.
AtNodeCall(q) ==
    \/ req[q].op = "create_nio" /\ req[q].pc = "add_nio"
    \/ /\ req[q].op \in {"delete_nio", "start_capture", "stop_capture",
                         "stream_pcap_file"}
       /\ req[q].pc = "called"

\* C11 (as claimed): detach is atomic.  While a delete_nio is suspended
\* between remove_nio and nio.delete() (the endpoint is out of the port
\* mapping and not yet released), no other operation on the same slot makes
\* its call to the node, so none observes that state.
C11_DetachAtomic ==
    [][\A r, q \in Req :
         (/\ r # q
          /\ req[r].op = "delete_nio"
          /\ req[r].pc = "delete"
          /\ AtNodeCall(q)
          /\ req[q].port = req[r].port) => req'[q] = req[q]]_vars

\* A lifecycle operation that has run a step and is suspended before its
\* next one, and the lifecycle operations.
MidFlight(r) == req[r].pc \in {"add_nio", "delete"}
LifecycleOps == {"create_nio", "delete_nio", "start_capture", "stop_capture"}

\* C12 (as claimed): lifecycle transitions on one slot are mutually
\* exclusive.  While a lifecycle operation on a slot is suspended mid-flight,
\* a second lifecycle operation on that slot runs no step: it is delayed, or
\* it is rejected with Conflict and changes nothing of the node.
C12_SlotExclusive ==
    [][\A r, q \in Req :
         (/\ r # q
          /\ MidFlight(r)
          /\ req[q].op \in LifecycleOps
          /\ req[q].pc \notin {"idle", "done"}
          /\ req[q].port = req[r].port) =>
             \/ req'[q] = req[q]
             \/ /\ req'[q].pc = "done"
                /\ req'[q].res = "conflict"
                /\ UNCHANGED <<mapping, nio_st, nio_port, capture, pcap>>]_vars

\* What the node answers to the call that request r is about to make: it
\* is determined by the operation, the port and the state of the node.
NodeOutcomes(r) ==
    LET p == req[r].port
    IN CASE req[r].op = "create_nio" -> {AddNioOutcome(p)}
         [] req[r].op = "delete_nio" -> {RemoveNioOutcome(p)}
         [] req[r].op = "start_capture" -> {StartCaptureOutcome(p)}
         [] req[r].op = "stop_capture" -> {StopCaptureOutcome(p)}
         [] req[r].op = "stream_pcap_file" -> StreamOutcomes(p)

C14_StopCaptureNoCapture ==
    [][\A r \in Req :
         (/\ Steps(r, "stop_capture", "called", "done")
          /\ \/ req[r].port \notin Ports
             \/ mapping[req[r].port] = 0
             \/ capture[mapping[req[r].port]] = <<>>) =>
             /\ req'[r].res = "notfound"
             /\ UNCHANGED <<mapping, nio_st, nio_port, capture, pcap>>]_vars

\* A stop_capture has been answered NotFound while an endpoint is attached
\* with no capture running.
C14_Witness ==
    \E r \in Req, p \in Ports :
        /\ req[r] = Done("stop_capture", "notfound", FALSE)
        /\ mapping[p] # 0
        /\ capture[mapping[p]] = <<>>

\* C15: streaming the capture file is read-only.  No step of a
\* stream_pcap_file handler, opening the stream or ending it, changes the
\* port mapping, an endpoint or a capture; on a slot with no attached
\* endpoint the handler answers NotFound.  The stream may be open while the
\* capture keeps running (C15_Witness).
C15_StreamReadOnly ==
    [][\A r \in Req :
         (/\ req[r].op = "stream_pcap_file"
          /\ req[r].pc \in {"called", "streaming"}
          /\ req'[r] # req[r]) =>
             /\ UNCHANGED <<mapping, nio_st, nio_port, capture, pcap>>
             /\ (/\ req[r].pc = "called"
                 /\ (req[r].port \notin Ports \/ mapping[req[r].port] = 0)) =>
                    req'[r] = Done("stream_pcap_file", "notfound", FALSE)]_vars

\* A stream is open on an endpoint whose capture is running and has
\* written a frame, and another stream has been answered NotFound.
C15_Witness ==
    \E r, q \in Req :
        /\ req[r].op = "stream_pcap_file"
        /\ req[r].pc = "streaming"
        /\ Len(capture[req[r].nio]) = 1
        /\ pcap[capture[req[r].nio][1]] >= 1
        /\ req[q] = Done("stream_pcap_file", "notfound", FALSE)

\* C16: no released endpoint is referenced by the port mapping.  A
\* delete_nio releases the endpoint that its remove_nio took out of the
\* mapping, and only that one; a delete_nio whose remove_nio fails releases
\* nothing.
C16_ReleasedNotMapped ==
    /\ [](\A p \in Ports : mapping[p] # 0 => nio_st[mapping[p]] = "live")
    /\ [][\A r \in Req :
            /\ Steps(r, "delete_nio", "delete", "done") =>
                  /\ \A p \in Ports : mapping[p] # req[r].nio
                  /\ nio_st' = [nio_st EXCEPT ![req[r].nio] = "released"]
            /\ Steps(r, "delete_nio", "called", "done") =>
                  /\ req'[r].res = "notfound"
                  /\ nio_st' = nio_st
            /\ Steps(r, "delete_nio", "called", "delete") =>
                  nio_st' = nio_st]_vars

\* One delete_nio has released its endpoint and another has failed.
C16_Witness ==
    \E r, q \in Req, n \in Nios :
        /\ req[r] = Done("delete_nio", "ok", FALSE)
        /\ req[q] = Done("delete_nio", "notfound", FALSE)
        /\ nio_st[n] = "released"

\* The endpoints a handler in flight holds in its local nio, to bind or to
\* release.
HeldNios == {req[r].nio : r \in {q \in Req : req[q].pc \in {"add_nio", "delete"}}}

\* C19 (as claimed): attach leaks no endpoint.  Every materialized endpoint
\* is bound in the port mapping, or held by a handler that is about to bind
\* or release it, or has been released; after a create_nio whose bind
\* failed the endpoint does not remain allocated and unattached.
C19_AttachLeaksNothing ==
    \A n \in Nios :
        nio_st[n] = "live" =>
            \/ \E p \in Ports : mapping[p] = n
            \/ n \in HeldNios

\* C17: the live-reload check is scheduled only with the debug flag set,
\* and a check starts a reload only when some source unit's modification
\* time is strictly greater than the start time: a step that starts reload
\* tasks is a check in debug mode with such a unit, and it starts one per
\* such unit; without the debug flag no reload is ever started.
C17_ReloadOnlyWhenNewer ==
    /\ [](hook => debug)
    /\ [](~debug => (Total(rtasks) = 0 /\ ~execed))
    /\ [][Total(rtasks') > Total(rtasks) =>
            /\ debug /\ hook
            /\ \E f \in SrcFiles : mtime[f] > StartTime
            /\ Total(rtasks') - Total(rtasks) =
                 Cardinality({f \in SrcFiles : mtime[f] > StartTime})]_vars

\* A reload has been started for the one unit that is newer than the start
\* time, and none for the unit modified exactly at the start time.
C17_Witness ==
    /\ debug
    /\ Total(rtasks) = 1
    /\ \E f, g \in SrcFiles : mtime[f] = StartTime /\ mtime[g] > StartTime

\* A termination signal has been delivered: its coroutine has been started.
SignalDelivered == Total(sigco) > sigco[CoNew]

\* C18 (as claimed): termination is live.  With modules whose unload
\* always returns, once a termination signal has been delivered to the
\* running server the scheduler eventually stops and run returns (or a
\* reload has replaced the process image before); and run never returns
\* while the scheduler is still running.
C18_SignalTerminates ==
    /\ SignalDelivered ~> ((pc = "returned" /\ loop = "stopped") \/ execed)
    /\ [](pc = "returned" => loop = "stopped")

\* C20: every registered module has the port manager set, in registry
\* order, before the listening endpoint is created: the modules that have
\* it are always a prefix of the registry, and all of them have it once the
\* loop over MODULES is left, hence whenever create_server has been tried.
C20_PortManagerBeforeListen ==
    /\ port_manager = 1..Cardinality(port_manager)
    /\ pc # "load" => port_manager = MODULES
    /\ (listening \/ fatal) => port_manager = MODULES

C20_Witness == listening /\ port_manager = MODULES
====
